---- MODULE Spec2Model ----
(***************************************************************************)
(* A model of the VoltWire component layer (src/voltwire): the validation  *)
(* engine of VoltWireComponent, its is_valid/add_error error map, the      *)
(* @validate decorator, the request lifecycle (view entry points, setup,   *)
(* dispatch, render, redirect), property initialization and serialization, *)
(* template resolution, and VoltWireMiddleware.                            *)
(*                                                                         *)
(* Strings are sequences of atoms.  A property value that is a string is a *)
(* sequence over Chars; a rule string is a sequence of atoms in which the  *)
(* keywords the code compares against ("required", "min", ...) are one     *)
(* atom each and ":", "|", " " and the digits are atoms of their own.      *)
(***************************************************************************)
EXTENDS Integers, Sequences, FiniteSets, TLC

VARIABLES
    vpValue,      \* _validate_property: the value argument
    vpRules,      \* _validate_property: the rules argument
    vpOut,        \* _validate_property: its outcome, or NotRun
    phase,        \* validation: "class" while the class body runs, then "instance"
    classRules,   \* the class attribute _validation_rules: a dict, as its items in order
    decorated,    \* what @validate stored: decorated name -> the rules on that object
    props,        \* the component's attributes: name -> value (hasattr = in the domain)
    _errors,      \* self._errors: field -> list of messages
    ivOut         \* what is_valid() just returned or raised; NotCalled once
                  \* the component has been changed since

    ,
    pc,           \* where the request is: "idle", "constructed", "ready", "invoke", "done",
                  \* "delivered"
    entry,        \* how the request reached the component: as_view, voltwire_view, direct
    req,          \* the request: method, X-VoltWire-Request header, voltwire_action
    comp,         \* the component class: its methods, what they do, its templates
    _is_voltwire_request,      \* self._is_voltwire_request
    _initialized_properties,   \* self._initialized_properties
    target,       \* what dispatch is about to call: <<how, name>>
    depth,        \* how many dispatch calls are on the stack
    log,          \* the calls made on the component so far, in order
    response,     \* what the entry point got back from the component
    delivered     \* what the entry point handed to the host framework

    ,
    classAttrs,   \* the public attributes of a component class: name -> cell
    heap,         \* the mutable objects (lists): reference -> items
    instances,    \* the live instances: id -> its __dict__ and its
                  \* _initialized_properties flag
    lastCall      \* the last operation on an instance, with what every
                  \* instance and the class held just before it

    ,
    tExts,        \* get_template_name: the component's _template_extensions
    tExisting,    \* get_template_name: the extensions a template exists for
    tOut          \* get_template_name: what it returned, NoTemplate before

    ,
    mwRequest,    \* middleware: the request, its headers and the flags set on it
    mwSettings,   \* middleware: settings.VOLTWIRE
    mwResponse,   \* middleware: the response on its way out
    mwPhase       \* middleware: "request", "view", "view again", "response", "sent"

    ,
    serAttrs,     \* serialization: the attributes of the component, name -> value
    serOut        \* serialization: what _get_serialized_properties returned

valVars == <<phase, classRules, decorated, props, _errors, ivOut>>
ruleVars == <<vpValue, vpRules, vpOut>>
reqVars == <<pc, entry, req, comp, _is_voltwire_request, _initialized_properties,
             target, depth, log, response, delivered>>
propVars == <<classAttrs, heap, instances, lastCall>>
\* the variables of SpecProps, SpecTemplate, SpecMiddleware and SpecSerial
tmplVars == <<tExts, tExisting, tOut>>
mwVars == <<mwRequest, mwSettings, mwResponse, mwPhase>>
serVars == <<serAttrs, serOut>>
extVars == <<propVars, tmplVars, mwVars, serVars>>
vars == <<vpValue, vpRules, vpOut, phase, classRules, decorated, props, _errors, ivOut,
          pc, entry, req, comp, _is_voltwire_request, _initialized_properties,
          target, depth, log, response, delivered, extVars>>

-----------------------------------------------------------------------------
(* Bounds *)

\* longest string value of a property that Init enumerates exhaustively
MaxStrLen == 3
\* most rules joined with "|" in one rule string
MaxRules == 2
\* most messages add_error has put into the error map at one time
MaxAddErrors == 2
\* the interpreter's recursion limit, in nested dispatch calls
MaxDepth == 2

-----------------------------------------------------------------------------
(* Typed values (spec: string, number, boolean, null) *)

Chars == {"a", "@", "."}

RECURSIVE SeqsUpTo(_, _)
SeqsUpTo(S, n) ==
    IF n = 0 THEN {<<>>}
    ELSE LET shorter == SeqsUpTo(S, n - 1)
         IN  shorter \cup {Append(s, c) : s \in {t \in shorter : Len(t) = n - 1}, c \in S}

StrV(s)   == [type |-> "str",   s |-> s,    n |-> 0]
IntV(n)   == [type |-> "int",   s |-> <<>>, n |-> n]
FloatV(n) == [type |-> "float", s |-> <<>>, n |-> n]
BoolV(b)  == [type |-> "bool",  s |-> <<>>, n |-> IF b THEN 1 ELSE 0]
None     == [type |-> "null",  s |-> <<>>, n |-> 0]
\* a function or bound method found as an attribute (truthy, of no other type)
Method   == [type |-> "method", s |-> <<>>, n |-> 1]

\* two well-formed addresses and one longer string, beyond MaxStrLen
LongStrings == {<<"a", "@", "a", ".", "a">>, <<"a", "@", "a", "a", ".", "a">>,
                <<"a", "a", "a", "a", "a">>}

Values ==
    {StrV(s) : s \in SeqsUpTo(Chars, MaxStrLen) \cup LongStrings}
      \cup {IntV(n) : n \in {-1, 0, 2, 3, 4}}
      \cup {FloatV(n) : n \in {0, 2}}
      \cup {BoolV(b) : b \in BOOLEAN}
      \cup {None}

\* Python truthiness: bool(value)
Truthy(v) ==
    CASE v.type = "str"  -> v.s # <<>>
      [] v.type = "null" -> FALSE
      [] OTHER           -> v.n # 0

\* isinstance(value, (int, float)): bool is a subclass of int
IsIntOrFloat(v) == v.type \in {"int", "float", "bool"}

\* isinstance(value, str)
IsStr(v) == v.type = "str"

-----------------------------------------------------------------------------
(* String helpers, on sequences of atoms *)

\* s[i..] in Python's 0-based slicing is SubSeq(s, i + 1, Len(s))
Drop(s, k) == SubSeq(s, k + 1, Len(s))
Take(s, k) == SubSeq(s, 1, k)

\* str.startswith
StartsWith(s, p) == Len(s) >= Len(p) /\ Take(s, Len(p)) = p

\* index of the first occurrence of atom c in s, 0 when there is none
RECURSIVE IndexOf(_, _)
IndexOf(s, c) ==
    IF s = <<>> THEN 0
    ELSE IF Head(s) = c THEN 1
    ELSE IF IndexOf(Tail(s), c) = 0 THEN 0 ELSE IndexOf(Tail(s), c) + 1

\* str.split(sep): always at least one piece, empty pieces kept
RECURSIVE Split(_, _)
Split(s, sep) ==
    IF IndexOf(s, sep) = 0 THEN <<s>>
    ELSE <<Take(s, IndexOf(s, sep) - 1)>> \o Split(Drop(s, IndexOf(s, sep)), sep)

RECURSIVE LStrip(_)
LStrip(s) == IF s # <<>> /\ Head(s) = " " THEN LStrip(Tail(s)) ELSE s

RECURSIVE RStrip(_)
RStrip(s) == IF s # <<>> /\ s[Len(s)] = " " THEN RStrip(Take(s, Len(s) - 1)) ELSE s

\* str.strip()
Strip(s) == LStrip(RStrip(s))

Digits == {"0", "3", "5"}

DigitVal(d) == CASE d = "0" -> 0 [] d = "3" -> 3 [] d = "5" -> 5 [] OTHER -> 0

RECURSIVE DigitsVal(_, _)
DigitsVal(s, acc) ==
    IF s = <<>> THEN acc ELSE DigitsVal(Tail(s), 10 * acc + DigitVal(Head(s)))

\* int(text): surrounding blanks are dropped, one sign is allowed, then at
\* least one digit and nothing else; anything else is a ValueError.
IsSigned(t) == t # <<>> /\ Head(t) \in {"-", "+"}
Unsigned(t) == IF IsSigned(t) THEN Tail(t) ELSE t
AllDigits(body) == body # <<>> /\ \A i \in 1..Len(body) : body[i] \in Digits
Signed(t, mag) == IF IsSigned(t) /\ Head(t) = "-" THEN 0 - mag ELSE mag
IntOfStripped(t) ==
    IF AllDigits(Unsigned(t))
    THEN [ok |-> TRUE, val |-> Signed(t, DigitsVal(Unsigned(t), 0))]
    ELSE [ok |-> FALSE, val |-> 0]
ParseInt(text) == IntOfStripped(Strip(text))

\* re.match(r'^[^@]+@[^@]+\.[^@]+$', s) on a string: exactly one "@", not
\* first, and after it a "." that is neither right after "@" nor last.
EmailMatch(s) ==
    \E i \in 1..Len(s) :
        /\ s[i] = "@"
        /\ i >= 2
        /\ \A k \in 1..Len(s) : k # i => s[k] # "@"
        /\ \E j \in (i + 2)..(Len(s) - 1) : s[j] = "."

-----------------------------------------------------------------------------
(* VoltWireComponent._validate_property *)

MsgRequired == <<"This field is required.", 0>>
MsgMinValue(n) == <<"Value must be at least {min_val}.", n>>
MsgMinLen(n)   == <<"Must be at least {min_val} characters.", n>>
MsgMaxValue(n) == <<"Value must be at most {max_val}.", n>>
MsgMaxLen(n)   == <<"Must be at most {max_val} characters.", n>>
MsgEmail == <<"Must be a valid email address.", 0>>

\* An outcome of a call: the exception it raised ("" when it returned) and
\* the list of errors built so far.
Returned(errors) == [raised |-> "", errors |-> errors]
Raised(exc, errors) == [raised |-> exc, errors |-> errors]

\* rule_list = [rule.strip() for rule in rules.split('|')]
StripAll(parts) == [i \in 1..Len(parts) |-> Strip(parts[i])]
RuleList(rules) == StripAll(Split(rules, "|"))

\* the min:/max: branch: int(rule.split(':')[1]), then the two isinstance tests
BoundCheck(value, p, errors, isMin) ==
    IF ~p.ok THEN Raised("ValueError", errors)
    ELSE IF IsIntOrFloat(value) /\ (IF isMin THEN value.n < p.val ELSE value.n > p.val)
         THEN Returned(Append(errors, IF isMin THEN MsgMinValue(p.val)
                                               ELSE MsgMaxValue(p.val)))
    ELSE IF IsStr(value) /\ (IF isMin THEN Len(value.s) < p.val ELSE Len(value.s) > p.val)
         THEN Returned(Append(errors, IF isMin THEN MsgMinLen(p.val)
                                               ELSE MsgMaxLen(p.val)))
    ELSE Returned(errors)

BoundRule(value, rule, errors, isMin) ==
    BoundCheck(value, ParseInt(Split(rule, ":")[2]), errors, isMin)

\* the email branch: `if value and not re.match(pattern, value)`; re.match
\* raises TypeError when value is not a string
EmailRule(value, errors) ==
    IF ~Truthy(value) THEN Returned(errors)
    ELSE IF ~IsStr(value) THEN Raised("TypeError", errors)
    ELSE IF ~EmailMatch(value.s) THEN Returned(Append(errors, MsgEmail))
    ELSE Returned(errors)

\* one pass of the body of `for rule in rule_list`
ApplyRule(value, rule, errors) ==
    IF rule = <<"required">>
    THEN IF value = None \/ value = StrV(<<>>)
         THEN Returned(Append(errors, MsgRequired))
         ELSE Returned(errors)
    ELSE IF StartsWith(rule, <<"min", ":">>) THEN BoundRule(value, rule, errors, TRUE)
    ELSE IF StartsWith(rule, <<"max", ":">>) THEN BoundRule(value, rule, errors, FALSE)
    ELSE IF rule = <<"email">> THEN EmailRule(value, errors)
    ELSE Returned(errors)

RECURSIVE ValidateLoop(_, _, _), ValidateRest(_, _, _)
ValidateLoop(value, ruleList, errors) ==
    IF ruleList = <<>> THEN Returned(errors)
    ELSE ValidateRest(value, Tail(ruleList), ApplyRule(value, Head(ruleList), errors))

\* a raise leaves the loop; otherwise on to the next rule
ValidateRest(value, rest, r) ==
    IF r.raised # "" THEN r ELSE ValidateLoop(value, rest, r.errors)

_validate_property(value, rules) == ValidateLoop(value, RuleList(rules), <<>>)

-----------------------------------------------------------------------------
(* Rule strings *)

\* the rules one rule string is joined from: the four rules of the engine,
\* padded, with well-formed and malformed parameters, and unknown tokens
RuleTokens ==
    { <<"required">>, <<" ", "required", " ">>, <<"email">>,
      <<"min", ":", "3">>, <<"max", ":", "3">>, <<"min", ":", " ", "3">>,
      <<"min", ":", "x">>, <<"max", ":">>, <<"min", ":", "3", ":", "x">>,
      <<"min">>, <<"unique">>, <<"required", "x">>, <<>> }

RECURSIVE JoinedUpTo(_)
JoinedUpTo(n) ==
    IF n = 1 THEN RuleTokens
    ELSE LET shorter == JoinedUpTo(n - 1)
         IN  shorter \cup {s \o <<"|">> \o t : s \in shorter, t \in RuleTokens}

RuleStrings == JoinedUpTo(MaxRules)

NotRun == [raised |-> "not run", errors |-> <<>>]

-----------------------------------------------------------------------------
(* The component's validation state: _validation_rules, @validate, _errors *)

EmptyMap == [x \in {} |-> <<>>]

\* d with key k set to v (a dict assignment d[k] = v)
Put(d, k, v) == [x \in DOMAIN d \cup {k} |-> IF x = k THEN v ELSE d[x]]

PropNames == {"title", "body"}

\* "required|min:3", "email", "min:x", as rule strings
RuleRequiredMin3 == <<"required", "|", "min", ":", "3">>
RuleEmail == <<"email">>
RuleMinX == <<"min", ":", "x">>
CompRules == {RuleRequiredMin3, RuleEmail, RuleMinX}

\* '', 'ab', 'abc' and 5
PropValues == {StrV(<<>>), StrV(<<"a", "a">>), StrV(<<"a", "a", "a">>), IntV(5)}

\* the dicts a class body can bind _validation_rules to, as item lists
RuleDicts ==
    {<<>>}
      \cup {<<<<f, r>>>> : f \in PropNames, r \in CompRules}
      \cup {<<<<fg[1], r>>, <<fg[2], q>>>> :
               fg \in {x \in PropNames \X PropNames : x[1] # x[2]},
               r \in CompRules, q \in CompRules}

RuleNames(items) == {items[i][1] : i \in 1..Len(items)}
RulesOf(items, f) == items[CHOOSE i \in 1..Len(items) : items[i][1] = f][2]

NotCalled == [raised |-> "not called", result |-> FALSE]

\* the body of `for property_name, rules in self._validation_rules.items()`:
\* a name the component has no attribute for is skipped; a raise ends the call
\* `if errors: self._errors[property_name] = errors`
RecordErrors(name, r, errs) ==
    [raised |-> r.raised,
     errors |-> IF r.raised = "" /\ r.errors # <<>> THEN Put(errs, name, r.errors) ELSE errs]

IsValidStep(item, attrs, errs) ==
    IF item[1] \notin DOMAIN attrs THEN [raised |-> "", errors |-> errs]
    ELSE RecordErrors(item[1], _validate_property(attrs[item[1]], item[2]), errs)

RECURSIVE IsValidLoop(_, _, _), IsValidRest(_, _, _)
IsValidLoop(items, attrs, errs) ==
    IF items = <<>> THEN [raised |-> "", errors |-> errs]
    ELSE IsValidRest(Tail(items), attrs, IsValidStep(Head(items), attrs, errs))

IsValidRest(rest, attrs, step) ==
    IF step.raised # "" THEN step ELSE IsValidLoop(rest, attrs, step.errors)

\* is_valid(): self._errors = {}, the loop, return len(self._errors) == 0
IsValidReturn(out) ==
    [raised |-> out.raised, errors |-> out.errors,
     result |-> out.raised = "" /\ DOMAIN out.errors = {}]

is_valid(items, attrs, oldErrors) == IsValidReturn(IsValidLoop(items, attrs, EmptyMap))

\* add_error(field, message)
add_error(errs, field, message) ==
    Put(errs, field, Append(IF field \in DOMAIN errs THEN errs[field] ELSE <<>>, message))

\* validate(rules)(field): field._validation_rules[field.__name__] = rules, on
\* the decorated object; the class's _validation_rules is not touched
validate(decor, rules, fieldName) == Put(decor, fieldName, rules)

CustomMsg == <<"custom", 0>>

RECURSIVE CountCustom(_, _)
CountCustom(errs, names) ==
    IF names = {} THEN 0
    ELSE LET f == CHOOSE x \in names : TRUE
         IN  Cardinality({i \in 1..Len(errs[f]) : errs[f][i] = CustomMsg})
               + CountCustom(errs, names \ {f})

\* the validation variables of a specification that does not use them
ValIdle ==
    /\ phase = "unused"
    /\ classRules = <<>>
    /\ decorated = EmptyMap
    /\ props = EmptyMap
    /\ _errors = EmptyMap
    /\ ivOut = NotCalled

\* the rule-engine variables of a specification that does not use them
RuleIdle ==
    /\ vpValue = None
    /\ vpRules = <<>>
    /\ vpOut = NotRun

NoCall == [op |-> "none", by |-> 0]

\* the class and instance variables of a specification that does not use them
PropIdle ==
    /\ classAttrs = EmptyMap
    /\ heap = EmptyMap
    /\ instances = EmptyMap
    /\ lastCall = NoCall

\* the template variables of a specification that does not use them
TmplIdle ==
    /\ tExts = <<>>
    /\ tExisting = {}
    /\ tOut = <<"", "", "">>

\* the middleware variables of a specification that does not use them
MwIdle ==
    /\ mwRequest = EmptyMap
    /\ mwSettings = EmptyMap
    /\ mwResponse = EmptyMap
    /\ mwPhase = "unused"

\* the serialization variables of a specification that does not use them
SerIdle ==
    /\ serAttrs = EmptyMap
    /\ serOut = EmptyMap

ExtIdle == PropIdle /\ TmplIdle /\ MwIdle /\ SerIdle

-----------------------------------------------------------------------------
(* Requests, component classes and responses *)

\* request.method
Methods == {"GET", "POST", "PUT"}

\* request.method.lower()
Lower(method) ==
    CASE method = "GET" -> "get" [] method = "POST" -> "post" [] method = "PUT" -> "put"

\* View.http_method_names
http_method_names == {"get", "post", "put", "patch", "delete", "head", "options", "trace"}

\* request.headers.get('X-VoltWire-Request'): 'true', another value, or None
HeaderValues == {"true", "1", ""}

\* the methods of the base class that a component inherits
LifecycleMethods == {"dispatch", "setup", "mount", "render", "redirect", "is_valid"}
\* underscore-prefixed attributes: a dict and a method
PrivateNames == {"_errors", "_initialize_properties"}
\* attributes that are not callable
NonCallables == {"_errors", "title"}
\* the methods a component class may define itself: verb handlers and an action
UserMethods == {"get", "post", "save"}

\* request.POST.get('voltwire_action'): "" stands for a missing field
ActionNames ==
    {"", "save", "nope"} \cup LifecycleMethods \cup PrivateNames \cup NonCallables

\* what the body of a user-defined method does
\*   render:   return self.render(request)
\*   redirect: return self.redirect(<view name>)
\*   validate: if self.is_valid(): return self.redirect(<view name>)
\*             return self.render(request)
\*   raise E:  the body fails with exception E before it returns
\*   render named: return self.render(request, template_name='pages/custom.html')
Failures == {"raise AttributeError", "raise KeyError"}
Behaviours == {"render", "redirect", "validate", "render named"} \cup Failures

\* the exception a failing body raises
Raised_by(does) ==
    CASE does = "raise AttributeError" -> "AttributeError"
      [] does = "raise KeyError" -> "KeyError"

\* the extensions get_template_name probes, in order
DefaultExts == <<".vw.html", ".html">>
ClassName == "Comp"
TemplateName(ext) == <<"VoltWire/", ClassName, ext>>
NoTemplate == <<"", "", "">>
\* a template of the project that a handler names in render(template_name=...)
CustomTemplate == <<"pages/", "custom", ".html">>

\* the URL patterns: reverse(view_name)
ViewNames == {"home", "admin:index"}
Reverse(view_name) ==
    CASE view_name = "home" -> "/" [] view_name = "admin:index" -> "/admin/"

Requests == [method : Methods, header : HeaderValues, action : ActionNames]

Components ==
    [defined : SUBSET UserMethods, does : Behaviours, to : ViewNames,
     templates : {{}, {".html"}, {".vw.html", ".html"}}]

\* hasattr(self, name)
HasAttr(c, name) ==
    name \in c.defined \cup LifecycleMethods \cup PrivateNames \cup NonCallables

EnvelopeFields ==
    {"success", "html", "title", "errors", "properties", "messages", "redirect"}

NoResponse ==
    [kind |-> "pending", status |-> 0, by |-> "", fields |-> {}, html |-> NoTemplate,
     redirect |-> "", errors |-> EmptyMap, exc |-> ""]

\* JsonResponse(data): status 200, the keys of data, its html, redirect and errors
JsonResponse(by, fields, html, url, errs) ==
    [kind |-> "json", status |-> 200, by |-> by, fields |-> fields, html |-> html,
     redirect |-> url, errors |-> errs, exc |-> ""]

\* django.shortcuts.render: a full document, status 200
HtmlResponse(by, html) ==
    [kind |-> "html", status |-> 200, by |-> by, fields |-> {}, html |-> html,
     redirect |-> "", errors |-> EmptyMap, exc |-> ""]

\* django.shortcuts.redirect: HttpResponseRedirect, status 302, Location: url
HttpRedirect(by, url) ==
    [kind |-> "redirect", status |-> 302, by |-> by, fields |-> {}, html |-> NoTemplate,
     redirect |-> url, errors |-> EmptyMap, exc |-> ""]

\* View.http_method_not_allowed: HttpResponseNotAllowed, status 405
NotAllowed ==
    [kind |-> "not_allowed", status |-> 405, by |-> "http_method_not_allowed",
     fields |-> {}, html |-> NoTemplate, redirect |-> "", errors |-> EmptyMap, exc |-> ""]

\* a method that returns None
ReturnedNone(by) ==
    [kind |-> "none", status |-> 0, by |-> by, fields |-> {}, html |-> NoTemplate,
     redirect |-> "", errors |-> EmptyMap, exc |-> ""]

\* HttpResponseServerError("Component not found: ..."), status 500
ServerError ==
    [kind |-> "server_error", status |-> 500, by |-> "view_wrapper", fields |-> {},
     html |-> NoTemplate, redirect |-> "", errors |-> EmptyMap, exc |-> ""]

\* an exception on its way out of dispatch
Raises(by, exc) ==
    [kind |-> "raise", status |-> 0, by |-> by, fields |-> {}, html |-> NoTemplate,
     redirect |-> "", errors |-> EmptyMap, exc |-> exc]

-----------------------------------------------------------------------------
(* VoltWireComponent.get_template_name, render, redirect *)

\* the loop over template_extensions, then the fallback
RECURSIVE ProbeTemplates(_, _)
ProbeTemplates(exts, existing) ==
    IF exts = <<>> THEN TemplateName(".html")
    ELSE IF Head(exts) \in existing THEN TemplateName(Head(exts))
    ELSE ProbeTemplates(Tail(exts), existing)

get_template_name(c) == ProbeTemplates(DefaultExts, c.templates)

\* the template engine: a template that is not in the store cannot be rendered;
\* the store holds the project's own template and the component's, if any
Exists(c, name) == name = CustomTemplate \/ \E ext \in c.templates : name = TemplateName(ext)

\* _render_voltwire_response with the 'redirect' key left out of response_data
RenderEnvelopeWithoutRedirectKey(c, errs) ==
    IF Exists(c, get_template_name(c))
    THEN JsonResponse("render", EnvelopeFields \ {"redirect"}, get_template_name(c),
                      "null", errs)
    ELSE Raises("render", "TemplateDoesNotExist")

\* _render_voltwire_response: render_to_string(self.get_template_name(), ...)
\* wrapped in the envelope
_render_voltwire_response(c, errs) ==
    IF Exists(c, get_template_name(c))
    THEN JsonResponse("render", EnvelopeFields, get_template_name(c), "null", errs)
    ELSE Raises("render", "TemplateDoesNotExist")

\* the template render() hands to django.shortcuts.render
ChosenTemplate(c, template_name) ==
    IF template_name = NoTemplate THEN get_template_name(c) ELSE template_name

\* render(request, template_name, context)
render(c, isVw, template_name, errs) ==
    IF isVw THEN _render_voltwire_response(c, errs)
    ELSE IF Exists(c, ChosenTemplate(c, template_name))
         THEN HtmlResponse("render", ChosenTemplate(c, template_name))
         ELSE Raises("render", "TemplateDoesNotExist")

\* redirect that issues the HTTP redirect whatever the request is
RedirectAlwaysHttp(isVw, view_name) == HttpRedirect("redirect", Reverse(view_name))

\* redirect(view_name)
redirect(isVw, view_name) ==
    IF isVw
    THEN JsonResponse("redirect", {"success", "redirect"}, NoTemplate,
                      Reverse(view_name), EmptyMap)
    ELSE HttpRedirect("redirect", Reverse(view_name))

-----------------------------------------------------------------------------
(* The request lifecycle *)

\* the request variables of a specification that does not use them
ReqIdle ==
    /\ pc = "idle"
    /\ entry = ""
    /\ req = [method |-> "GET", header |-> "", action |-> ""]
    /\ comp = [defined |-> {}, does |-> "render", to |-> "home", templates |-> {}]
    /\ _is_voltwire_request = FALSE
    /\ _initialized_properties = FALSE
    /\ target = <<"", "">>
    /\ depth = 0
    /\ log = <<>>
    /\ response = NoResponse
    /\ delivered = NoResponse

\* the component of the lifecycle: one property, title, declared required
TitleRequired == <<<<"title", <<"required">>>>>>

Init ==
    /\ ReqIdle
    /\ RuleIdle
    /\ phase = "request"
    /\ classRules = TitleRequired
    /\ decorated = EmptyMap
    /\ props = [title |-> StrV(<<>>)]
    /\ _errors = EmptyMap
    /\ ivOut = NotCalled
    /\ ExtIdle

\* A request arrives for a component class and the entry point constructs the
\* instance: __init__ sets _errors, _is_voltwire_request, _initialized_properties.
\*   as_view:       View.as_view()'s view(): cls(), setup(), dispatch()
\*   voltwire_view: view_wrapper: component_class(), dispatch()
\*   direct:        a caller holding the instance, as the tests do
Arrive(e, r, c, titleValue) ==
    /\ pc = "idle"
    /\ pc' = "constructed"
    /\ entry' = e
    /\ req' = r
    /\ comp' = c
    /\ props' = [title |-> titleValue]
    /\ _errors' = EmptyMap
    /\ _is_voltwire_request' = FALSE
    /\ _initialized_properties' = FALSE
    /\ UNCHANGED <<target, depth, log, response, delivered, phase, classRules,
                   decorated, ivOut>>
    /\ UNCHANGED ruleVars
    /\ UNCHANGED extVars

\* setup(request): super().setup(), self._initialize_properties(), self.mount()
SetupCalls == << <<"lifecycle", "_initialize_properties">>, <<"lifecycle", "mount">> >>

Setup ==
    /\ pc = "constructed"
    /\ entry = "as_view"
    /\ pc' = "ready"
    /\ _initialized_properties' = TRUE
    /\ log' = log \o SetupCalls
    /\ UNCHANGED <<entry, req, comp, _is_voltwire_request, target, depth, response,
                   delivered>>
    /\ UNCHANGED valVars
    /\ UNCHANGED ruleVars
    /\ UNCHANGED extVars

\* dispatch, lines 75-78: the handler bound to the verb
VerbHandler(c, method) ==
    IF Lower(method) \in http_method_names /\ Lower(method) \in c.defined
    THEN Lower(method)
    ELSE "http_method_not_allowed"

\* dispatch, lines 81-83: whether the action branch is taken
TakesAction(c, isVw, r) ==
    isVw /\ r.method = "POST" /\ r.action # "" /\ HasAttr(c, r.action)

\* dispatch, lines 73-86, up to the call it ends with
DispatchTarget(c, isVw, r) ==
    IF TakesAction(c, isVw, r) THEN <<"by_name", r.action>>
    ELSE <<"verb", VerbHandler(c, r.method)>>

\* the entry point calls dispatch(request), or dispatch was named as the
\* action and calls itself
Dispatch ==
    /\ \/ pc = "ready"
       \/ pc = "constructed" /\ entry \in {"voltwire_view", "direct"}
       \/ pc = "invoke" /\ target = <<"by_name", "dispatch">> /\ depth < MaxDepth
    /\ pc' = "invoke"
    /\ depth' = depth + 1
    /\ _is_voltwire_request' = (req.header = "true")
    /\ target' = DispatchTarget(comp, req.header = "true", req)
    /\ log' = Append(log, DispatchTarget(comp, req.header = "true", req))
    /\ UNCHANGED <<entry, req, comp, _initialized_properties, response, delivered>>
    /\ UNCHANGED valVars
    /\ UNCHANGED ruleVars
    /\ UNCHANGED extVars

\* dispatch calling itself without end: the interpreter raises RecursionError
RecursionLimit ==
    /\ pc = "invoke"
    /\ target = <<"by_name", "dispatch">>
    /\ depth = MaxDepth
    /\ pc' = "done"
    /\ response' = Raises("dispatch", "RecursionError")
    /\ UNCHANGED <<entry, req, comp, _is_voltwire_request, _initialized_properties,
                   target, depth, log, delivered>>
    /\ UNCHANGED valVars
    /\ UNCHANGED ruleVars
    /\ UNCHANGED extVars

\* the body of a user-defined method, by what the class says it does
UserCalls(does, valid, to) ==
    CASE does = "render"   -> << <<"render", "">> >>
      [] does = "redirect" -> << <<"redirect", to>> >>
      [] does = "validate" -> IF valid THEN << <<"is_valid", "">>, <<"redirect", to>> >>
                                       ELSE << <<"is_valid", "">>, <<"render", "">> >>
      [] does = "render named" -> << <<"render", "pages/custom.html">> >>
      [] does \in Failures -> <<>>

UserResponse(c, isVw, iv, errs) ==
    CASE c.does = "render"   -> render(c, isVw, NoTemplate, errs)
      [] c.does = "redirect" -> redirect(isVw, c.to)
      [] c.does = "validate" -> IF iv.result THEN redirect(isVw, c.to)
                                ELSE render(c, isVw, NoTemplate, iv.errors)
      [] c.does = "render named" -> render(c, isVw, CustomTemplate, errs)
      [] c.does \in Failures -> Raises("handler", Raised_by(c.does))

\* dispatch calls a method the component class defines: get, post or save
InvokeUser ==
    /\ pc = "invoke"
    /\ target[2] \in comp.defined
    /\ pc' = "done"
    /\ \E iv \in {is_valid(classRules, props, _errors)} :
          /\ _errors' = IF comp.does = "validate" THEN iv.errors ELSE _errors
          /\ response' = UserResponse(comp, _is_voltwire_request, iv, _errors)
          /\ log' = log \o UserCalls(comp.does, iv.result, comp.to)
    /\ UNCHANGED <<entry, req, comp, _is_voltwire_request, _initialized_properties,
                   target, depth, delivered>>
    /\ UNCHANGED <<phase, classRules, decorated, props, ivOut>>
    /\ UNCHANGED ruleVars
    /\ UNCHANGED extVars

\* dispatch calls http_method_not_allowed: the verb has no handler
InvokeNotAllowed ==
    /\ pc = "invoke"
    /\ target = <<"verb", "http_method_not_allowed">>
    /\ pc' = "done"
    /\ response' = NotAllowed
    /\ UNCHANGED <<entry, req, comp, _is_voltwire_request, _initialized_properties,
                   target, depth, log, delivered>>
    /\ UNCHANGED valVars
    /\ UNCHANGED ruleVars
    /\ UNCHANGED extVars

\* getattr(self, action)(request) for an attribute of the base class:
\*   setup(request)    runs again and returns None
\*   mount(request)    runs again and returns None
\*   render(request)   renders
\*   redirect(request) reverse() of a request: NoReverseMatch
\*   is_valid(request), _initialize_properties(request): one argument too many
\*   _errors(request), title(request): not callable
BuiltinResponse(c, isVw, name, errs) ==
    CASE name \in {"setup", "mount"} -> ReturnedNone(name)
      [] name = "render" -> render(c, isVw, NoTemplate, errs)
      [] name = "redirect" -> Raises(name, "NoReverseMatch")
      [] OTHER -> Raises(name, "TypeError")

BuiltinCalls(name) ==
    CASE name = "setup" -> SetupCalls
      [] name = "mount" -> << <<"lifecycle", "mount">> >>
      [] name = "render" -> << <<"render", "">> >>
      [] OTHER -> <<>>

InvokeBuiltin ==
    /\ pc = "invoke"
    /\ target[1] = "by_name"
    /\ target[2] \notin comp.defined \cup {"dispatch"}
    /\ pc' = "done"
    /\ response' = BuiltinResponse(comp, _is_voltwire_request, target[2], _errors)
    /\ log' = log \o BuiltinCalls(target[2])
    /\ _initialized_properties' = (_initialized_properties \/ target[2] = "setup")
    /\ UNCHANGED <<entry, req, comp, _is_voltwire_request, target, depth, delivered>>
    /\ UNCHANGED valVars
    /\ UNCHANGED ruleVars
    /\ UNCHANGED extVars

\* component.request = request; component.redirect(view_name), on an instance
\* the caller holds, before or after a dispatch
RedirectDirect(view_name) ==
    /\ entry = "direct"
    /\ pc \in {"constructed", "done"}
    /\ response.by # "direct redirect"
    /\ pc' = "done"
    /\ response' = [redirect(_is_voltwire_request, view_name) EXCEPT !.by = "direct redirect"]
    /\ log' = Append(log, <<"direct redirect", view_name>>)
    /\ UNCHANGED <<entry, req, comp, _is_voltwire_request, _initialized_properties,
                   target, depth, delivered>>
    /\ UNCHANGED valVars
    /\ UNCHANGED ruleVars
    /\ UNCHANGED extVars

\* view_wrapper: `except (ImportError, AttributeError)` around the import,
\* the construction and the dispatch call alike
view_wrapper(r) ==
    IF r.kind = "raise" /\ r.exc \in {"ImportError", "AttributeError"}
    THEN ServerError
    ELSE r

\* the entry point hands the outcome of dispatch to the host framework:
\* as_view's view() returns or raises what dispatch did, view_wrapper filters
Deliver ==
    /\ pc = "done"
    /\ entry \in {"as_view", "voltwire_view"}
    /\ pc' = "delivered"
    /\ delivered' = IF entry = "voltwire_view" THEN view_wrapper(response) ELSE response
    /\ UNCHANGED <<entry, req, comp, _is_voltwire_request, _initialized_properties,
                   target, depth, log, response>>
    /\ UNCHANGED valVars
    /\ UNCHANGED ruleVars
    /\ UNCHANGED extVars

\* view_wrapper for a component path that import_string cannot resolve
ImportFails ==
    /\ pc = "idle"
    /\ pc' = "delivered"
    /\ entry' = "voltwire_view"
    /\ response' = Raises("import_string", "ImportError")
    /\ delivered' = view_wrapper(Raises("import_string", "ImportError"))
    /\ UNCHANGED <<req, comp, _is_voltwire_request, _initialized_properties,
                   target, depth, log>>
    /\ UNCHANGED valVars
    /\ UNCHANGED ruleVars
    /\ UNCHANGED extVars

\* the response leaves, the instance is dropped
Finish ==
    /\ pc = "delivered" \/ (pc = "done" /\ entry = "direct")
    /\ pc' = "idle"
    /\ entry' = ""
    /\ req' = [method |-> "GET", header |-> "", action |-> ""]
    /\ comp' = [defined |-> {}, does |-> "render", to |-> "home", templates |-> {}]
    /\ _is_voltwire_request' = FALSE
    /\ _initialized_properties' = FALSE
    /\ target' = <<"", "">>
    /\ depth' = 0
    /\ log' = <<>>
    /\ response' = NoResponse
    /\ delivered' = NoResponse
    /\ props' = [title |-> StrV(<<>>)]
    /\ _errors' = EmptyMap
    /\ UNCHANGED <<phase, classRules, decorated, ivOut>>
    /\ UNCHANGED ruleVars
    /\ UNCHANGED extVars

Next ==
    \/ /\ pc = "idle"
       /\ \E e \in {"as_view", "voltwire_view", "direct"}, r \in Requests,
             c \in Components, v \in {StrV(<<>>), StrV(<<"a", "a">>)} : Arrive(e, r, c, v)
    \/ Setup
    \/ Dispatch
    \/ RecursionLimit
    \/ InvokeUser
    \/ InvokeNotAllowed
    \/ InvokeBuiltin
    \/ \E n \in ViewNames : RedirectDirect(n)
    \/ Deliver
    \/ ImportFails
    \/ Finish

Spec == Init /\ [][Next]_vars

-----------------------------------------------------------------------------
(* SpecValid: a component class is defined, instantiated and validated *)

\* the class body: _validation_rules is bound (or left {}), defaults are set
InitValid ==
    /\ phase = "class"
    /\ classRules \in RuleDicts
    /\ decorated = EmptyMap
    /\ \E present \in SUBSET PropNames : props \in [present -> {StrV(<<>>), None}]
    /\ _errors = EmptyMap
    /\ ivOut = NotCalled
    /\ RuleIdle
    /\ ReqIdle
    /\ ExtIdle

\* @validate(rules) on a method named f of the class body
Decorate(f, rules) ==
    /\ phase = "class"
    /\ decorated = EmptyMap
    /\ decorated' = validate(decorated, rules, f)
    /\ props' = Put(props, f, Method)
    /\ UNCHANGED <<phase, classRules, _errors, ivOut>>
    /\ UNCHANGED ruleVars
    /\ UNCHANGED extVars
    /\ UNCHANGED reqVars

\* component = TestVoltWireComponent(): __init__ sets self._errors = {}
Construct ==
    /\ phase = "class"
    /\ phase' = "instance"
    /\ _errors' = EmptyMap
    /\ UNCHANGED <<classRules, decorated, props, ivOut>>
    /\ UNCHANGED ruleVars
    /\ UNCHANGED extVars
    /\ UNCHANGED reqVars

\* component.<f> = v
SetProperty(f, v) ==
    /\ phase = "instance"
    /\ ivOut.raised \in {"", "not called"}
    /\ props' = Put(props, f, v)
    /\ ivOut' = NotCalled
    /\ UNCHANGED <<phase, classRules, decorated, _errors>>
    /\ UNCHANGED ruleVars
    /\ UNCHANGED extVars
    /\ UNCHANGED reqVars

AddError(f) ==
    /\ phase = "instance"
    /\ ivOut.raised \in {"", "not called"}
    /\ CountCustom(_errors, DOMAIN _errors) < MaxAddErrors
    /\ _errors' = add_error(_errors, f, CustomMsg)
    /\ ivOut' = NotCalled
    /\ UNCHANGED <<phase, classRules, decorated, props>>
    /\ UNCHANGED ruleVars
    /\ UNCHANGED extVars
    /\ UNCHANGED reqVars

IsValid ==
    /\ phase = "instance"
    /\ ivOut.raised \in {"", "not called"}
    /\ \E out \in {is_valid(classRules, props, _errors)} :
           /\ _errors' = out.errors
           /\ ivOut' = [raised |-> out.raised, result |-> out.result]
    /\ UNCHANGED <<phase, classRules, decorated, props>>
    /\ UNCHANGED ruleVars
    /\ UNCHANGED extVars
    /\ UNCHANGED reqVars

NextValid ==
    \/ \E f \in PropNames, r \in CompRules : Decorate(f, r)
    \/ Construct
    \/ \E f \in PropNames, v \in PropValues : SetProperty(f, v)
    \/ \E f \in {"title", "other"} : AddError(f)
    \/ IsValid

SpecValid == InitValid /\ [][NextValid]_vars

\* the fields whose declared rules give at least one error for the value the
\* component holds, among the declared fields the component has
FailingFields ==
    {f \in RuleNames(classRules) \cap DOMAIN props :
        _validate_property(props[f], RulesOf(classRules, f)).errors # <<>>}

\* C8: a rule string declared for a property with @validate is enforced by
\* is_valid(): whenever the property's value violates the rule, is_valid()
\* returns false and get_errors() contains the property's name.
C8_DecoratedRuleEnforced ==
    \A f \in DOMAIN decorated :
        (/\ ivOut # NotCalled
         /\ f \in DOMAIN props
         /\ _validate_property(props[f], decorated[f]).errors # <<>>)
        => (/\ ivOut.raised = ""
            /\ ivOut.result = FALSE
            /\ f \in DOMAIN _errors)

\* C9: is_valid() discards the errors recorded before, evaluates every
\* declared field/rule pair, leaves the error map holding exactly the fields
\* whose rules gave an error, and returns true iff that map is empty.
C9_IsValidRebuildsErrors ==
    ivOut # NotCalled =>
        /\ ivOut.raised = ""
        /\ DOMAIN _errors = FailingFields
        /\ \A f \in DOMAIN _errors :
               _errors[f] = _validate_property(props[f], RulesOf(classRules, f)).errors
        /\ ivOut.result = (DOMAIN _errors = {})

-----------------------------------------------------------------------------
(* SpecRule: _validate_property as a pure function of (value, rules) *)

InitRule ==
    /\ vpValue \in Values
    /\ vpRules \in RuleStrings
    /\ vpOut = NotRun
    /\ ValIdle
    /\ ReqIdle
    /\ ExtIdle

CallValidateProperty ==
    /\ vpOut = NotRun
    /\ vpOut' = _validate_property(vpValue, vpRules)
    /\ UNCHANGED <<vpValue, vpRules>>
    /\ UNCHANGED valVars
    /\ UNCHANGED reqVars
    /\ UNCHANGED extVars

NextRule == CallValidateProperty

SpecRule == InitRule /\ [][NextRule]_vars

\* a rule the engine knows, as the branches of _validate_property test it
KnownRule(rule) ==
    \/ rule \in {<<"required">>, <<"email">>}
    \/ StartsWith(rule, <<"min", ":">>)
    \/ StartsWith(rule, <<"max", ":">>)

\* C10: validation never raises: for every typed value and every rule string
\* _validate_property returns a list of error strings, and a rule string of
\* unknown tokens only gives the empty list.
C10_ValidationNeverRaises ==
    /\ vpOut.raised \in {"not run", ""}
    /\ (\A i \in 1..Len(RuleList(vpRules)) : ~KnownRule(RuleList(vpRules)[i]))
          => vpOut.errors = <<>>

\* a min:N or max:N rule whose parameter int() accepts
WellFormedBound(rule) ==
    /\ StartsWith(rule, <<"min", ":">>) \/ StartsWith(rule, <<"max", ":">>)
    /\ ParseInt(Split(rule, ":")[2]).ok

\* C11: min:N and max:N compare numbers by value and strings by length only:
\* for a value of any other type, a boolean or null in particular, a rule
\* string of min:N and max:N rules gives no error, for every N.
C11_BoundsSkipOtherTypes ==
    (/\ vpOut # NotRun
     /\ vpValue.type \notin {"int", "float", "str"}
     /\ \A i \in 1..Len(RuleList(vpRules)) : WellFormedBound(RuleList(vpRules)[i]))
    => vpOut = Returned(<<>>)

-----------------------------------------------------------------------------
(* The claims about the request lifecycle, under Spec *)

\* dispatch has returned or raised, and nothing was called on the instance since
Dispatched == pc = "done" /\ depth > 0 /\ response.by # "direct redirect"

Reactive == req.header = "true"

\* the positions of the log where dispatch called its target
Calls == {i \in 1..Len(log) : log[i][1] \in {"verb", "by_name"}}

Mounts == {i \in 1..Len(log) : log[i] = <<"lifecycle", "mount">>}

\* C1: action dispatch is restricted to non-reserved component methods: the
\* attribute dispatch invokes by the name in voltwire_action is never a
\* reserved lifecycle method, an underscore-prefixed attribute or a
\* non-callable attribute, only a method the component defines.
C1_OnlyComponentActionsInvoked ==
    \A i \in 1..Len(log) :
        log[i][1] = "by_name" =>
            /\ log[i][2] \in comp.defined
            /\ log[i][2] \notin LifecycleMethods \cup PrivateNames \cup NonCallables

\* C2: a reactive POST whose voltwire_action matches nothing on the component
\* is rejected with a structured not-found/forbidden outcome, and no method
\* of the component, the verb handler included, is invoked for it.  (Read
\* in the code's favour: any 4xx response counts as the rejection, and
\* http_method_not_allowed does not count as a method of the component.)
C2_UnmatchedActionRejected ==
    (/\ Dispatched
     /\ Reactive
     /\ req.method = "POST"
     /\ req.action # ""
     /\ ~HasAttr(comp, req.action))
    => (/\ response.status \in 400..499
        /\ \A i \in Calls : log[i][2] = "http_method_not_allowed")

\* C3: through the standard view entry point and through voltwire_view alike,
\* properties are initialized first, then mount runs exactly once, and both
\* come before any verb handler or action method.
C3_InitThenMountOnce ==
    entry \in {"as_view", "voltwire_view"} =>
        \A i \in Calls :
            /\ Cardinality(Mounts) = 1
            /\ \E j \in 1..Len(log), k \in Mounts :
                  /\ log[j] = <<"lifecycle", "_initialize_properties">>
                  /\ j < k
                  /\ k < i

\* C4: every response dispatch returns for a reactive request is a JSON
\* envelope, whatever the verb and the voltwire_action; never an HTML
\* document or a bare method-not-allowed response.
C4_ReactiveAlwaysJson ==
    (Dispatched /\ Reactive /\ response.kind # "raise") =>
        (response.kind = "json" /\ "success" \in response.fields)

\* the view name a method running under dispatch passed to redirect, if any
RedirectedTo == {log[i][2] : i \in {j \in 1..Len(log) : log[j][1] = "redirect"}}

\* C5: when a handler or action method running under dispatch calls
\* redirect(target): for a reactive request the result is a status-200 JSON
\* envelope whose redirect field is the resolved URL of target, with no html
\* and no properties, and no HTTP redirect; for any other request it is a
\* standard HTTP redirect to that URL and no JSON envelope.
C5_RedirectFollowsRequestKind ==
    \A to \in RedirectedTo :
        Dispatched =>
            IF Reactive
            THEN /\ response.kind = "json"
                 /\ response.status = 200
                 /\ "redirect" \in response.fields
                 /\ response.redirect = Reverse(to)
                 /\ response.fields \cap {"html", "properties"} = {}
                 /\ response.html = NoTemplate
            ELSE /\ response.kind = "redirect"
                 /\ response.status = 302
                 /\ response.redirect = Reverse(to)
                 /\ response.fields = {}

\* a reactive POST whose action method save has called redirect
C5_Witness ==
    /\ Dispatched
    /\ Reactive
    /\ target = <<"by_name", "save">>
    /\ RedirectedTo = {"home"}
    /\ response.kind = "json"
    /\ response.redirect = "/"

\* C6: redirect(target) on a component whose attached request carries
\* X-VoltWire-Request: true returns a status-200 JSON response with a
\* redirect key, whether or not dispatch has run on the component.
C6_DirectRedirectIsJson ==
    (response.by = "direct redirect" /\ Reactive) =>
        /\ response.status = 200
        /\ response.kind = "json"
        /\ "redirect" \in response.fields

\* C15: a handler's exception is not caught on its way out: whatever a verb
\* handler or an action method raised under dispatch reaches the host
\* framework unchanged through every entry point, voltwire_view included.
C15_HandlerExceptionsPropagate ==
    (pc = "delivered" /\ depth > 0 /\ response.kind = "raise") => delivered = response

\* a method the component defines that is no lifecycle method, no
\* underscore-prefixed attribute and callable
Dispatchable(c, name) ==
    name \in c.defined \ (LifecycleMethods \cup PrivateNames \cup NonCallables)

\* C19: each dispatch invokes exactly one target, once: the action method
\* named by voltwire_action if and only if the request is reactive, its
\* method is POST and the name is that of a dispatchable method; otherwise
\* the handler bound to the verb, or method-not-allowed when the verb has
\* none.  An action on a non-reactive or non-POST request is never
\* dispatched, and a dispatched action does not also run the verb handler.
C19_ExactlyOneTarget ==
    (pc \in {"done", "delivered"} /\ depth > 0) =>
        /\ Cardinality(Calls) = 1
        /\ \A i \in Calls :
               IF /\ Reactive
                  /\ req.method = "POST"
                  /\ req.action # ""
                  /\ Dispatchable(comp, req.action)
               THEN log[i] = <<"by_name", req.action>>
               ELSE log[i] = <<"verb", VerbHandler(comp, req.method)>>

\* C20: dispatch runs to completion for every request, whatever the value
\* of voltwire_action: it never re-enters itself, and it ends with a
\* response or with what its one target raised, not with the interpreter
\* giving up on the depth of the call stack.
C20_DispatchCompletes ==
    /\ depth <= 1
    /\ response.exc # "RecursionError"

\* the template_name a handler of the component passes to render
TemplateArg(c) == IF c.does = "render named" THEN CustomTemplate ELSE NoTemplate

\* C21: render uses one template for both response shapes: when a handler
\* returns render(request, template_name=T), the html of the reactive JSON
\* envelope and the non-reactive document are both the rendering of T when
\* T is given, and of what get_template_name resolves otherwise.
C21_SameTemplateBothShapes ==
    (/\ Dispatched
     /\ target[2] \in comp.defined
     /\ comp.does \in {"render", "render named"}
     /\ Exists(comp, ChosenTemplate(comp, TemplateArg(comp))))
    => /\ response.kind = (IF Reactive THEN "json" ELSE "html")
       /\ response.html = ChosenTemplate(comp, TemplateArg(comp))

\* C7, as claimed: every JSON envelope, from render or from redirect, holds
\* all seven fields of the Wire Response Envelope.
C7_EveryEnvelopeHasAllFields ==
    response.kind = "json" => response.fields = EnvelopeFields

\* C7, amended: the JSON envelope render produces holds all seven fields; the
\* one redirect produces holds success and redirect and nothing else.
C7_EnvelopeFieldsByProducer ==
    response.kind = "json" =>
        \/ response.by = "render" /\ response.fields = EnvelopeFields
        \/ /\ response.by \in {"redirect", "direct redirect"}
           /\ response.fields = {"success", "redirect"}

\* a reactive request answered by render's envelope
C7_Witness ==
    /\ Dispatched
    /\ Reactive
    /\ response.kind = "json"
    /\ response.by = "render"
    /\ response.fields = EnvelopeFields

-----------------------------------------------------------------------------
(* SpecProps: a component class, its instances and their properties *)

\* longest list a property holds
MaxListLen == 2

\* the instances alive at one time, one per request being handled
InstanceIds == {1, 2}

\* an attribute holds an immutable value or a reference to a list in the heap
Imm(v) == [ref |-> -1, v |-> v]
Ref(r) == [ref |-> r, v |-> None]

\* the list a class body binds a property to
ClassListRef == 0

\* class bodies: title = '' alone, or title = '' and tags = []
ClassBodies ==
    { [title |-> Imm(StrV(<<>>))],
      [title |-> Imm(StrV(<<>>)), tags |-> Ref(ClassListRef)] }

\* __init__: nothing public in __dict__, _initialized_properties = False
NewComponent == [dict |-> EmptyMap, initialized |-> FALSE]

\* getattr(self, name): the instance's __dict__ first, then the class
getattr(inst, cattrs, name) ==
    IF name \in DOMAIN inst.dict THEN inst.dict[name] ELSE cattrs[name]

\* the public non-callable names of dir(self)
PublicDir(inst, cattrs) == DOMAIN cattrs \cup DOMAIN inst.dict

\* the loop of _initialize_properties: a name already in __dict__ is skipped,
\* any other gets setattr(self, name, getattr(self, name)), the same object
CopyDefaults(inst, cattrs) ==
    [name \in PublicDir(inst, cattrs) |-> getattr(inst, cattrs, name)]

\* _initialize_properties without its flag and without the __dict__ test:
\* every class default is set on the instance again
InitializeUnguarded(inst, cattrs) ==
    [dict |-> [name \in PublicDir(inst, cattrs) |->
                  IF name \in DOMAIN cattrs THEN cattrs[name] ELSE inst.dict[name]],
     initialized |-> TRUE]

\* _initialize_properties()
_initialize_properties(inst, cattrs) ==
    IF inst.initialized THEN inst
    ELSE [dict |-> CopyDefaults(inst, cattrs), initialized |-> TRUE]

\* what reading an attribute gives: the value, or the items of the list
Deref(cell, h) ==
    [list |-> cell.ref # -1, v |-> cell.v,
     items |-> IF cell.ref = -1 THEN <<>> ELSE h[cell.ref]]

\* every public property as the instance sees it
View(inst, cattrs, h) ==
    [name \in PublicDir(inst, cattrs) |-> Deref(getattr(inst, cattrs, name), h)]

\* every class-level default as the class holds it
ClassView(cattrs, h) == [name \in DOMAIN cattrs |-> Deref(cattrs[name], h)]

Snapshot ==
    [cls |-> ClassView(classAttrs, heap),
     views |-> [i \in DOMAIN instances |-> View(instances[i], classAttrs, heap)],
     insts |-> instances]

Called(op, i) == [op |-> op, by |-> i, before |-> Snapshot]

nonPropVars == <<valVars, ruleVars, reqVars, tmplVars, mwVars, serVars>>

InitProps ==
    /\ classAttrs \in ClassBodies
    /\ heap = (ClassListRef :> <<>>)
    /\ instances = EmptyMap
    /\ lastCall = NoCall
    /\ ValIdle
    /\ RuleIdle
    /\ ReqIdle
    /\ TmplIdle
    /\ MwIdle
    /\ SerIdle

\* component_class(): a fresh instance for a request
NewInstance(i) ==
    /\ i \notin DOMAIN instances
    /\ instances' = Put(instances, i, NewComponent)
    /\ lastCall' = Called("new", i)
    /\ UNCHANGED <<classAttrs, heap>>
    /\ UNCHANGED nonPropVars

\* self._initialize_properties(), from setup() or at any later point
InitializeProperties(i) ==
    /\ i \in DOMAIN instances
    /\ instances' = [instances EXCEPT ![i] = _initialize_properties(@, classAttrs)]
    /\ lastCall' = Called("initialize", i)
    /\ UNCHANGED <<classAttrs, heap>>
    /\ UNCHANGED nonPropVars

\* mount or a handler: self.title = v
SetAttr(i, v) ==
    /\ i \in DOMAIN instances
    /\ instances[i].initialized
    /\ instances' = [instances EXCEPT ![i].dict = Put(@, "title", Imm(v))]
    /\ lastCall' = Called("setattr", i)
    /\ UNCHANGED <<classAttrs, heap>>
    /\ UNCHANGED nonPropVars

\* mount or a handler: self.tags = [], a list of the instance's own
SetNewList(i) ==
    /\ i \in DOMAIN instances
    /\ instances[i].initialized
    /\ i \notin DOMAIN heap
    /\ heap' = Put(heap, i, <<>>)
    /\ instances' = [instances EXCEPT ![i].dict = Put(@, "tags", Ref(i))]
    /\ lastCall' = Called("setattr", i)
    /\ UNCHANGED classAttrs
    /\ UNCHANGED nonPropVars

\* mount or a handler: self.tags.append('x'), in place
AppendItem(i) ==
    /\ i \in DOMAIN instances
    /\ instances[i].initialized
    /\ "tags" \in PublicDir(instances[i], classAttrs)
    /\ Len(heap[getattr(instances[i], classAttrs, "tags").ref]) < MaxListLen
    /\ heap' = [heap EXCEPT ![getattr(instances[i], classAttrs, "tags").ref] =
                                 Append(@, "x")]
    /\ lastCall' = Called("append", i)
    /\ UNCHANGED <<classAttrs, instances>>
    /\ UNCHANGED nonPropVars

\* the response has left: the instance is dropped, and its own list with it
Discard(i) ==
    /\ i \in DOMAIN instances
    /\ instances' = [j \in DOMAIN instances \ {i} |-> instances[j]]
    /\ heap' = [r \in DOMAIN heap \ {i} |-> heap[r]]
    /\ lastCall' = NoCall
    /\ UNCHANGED classAttrs
    /\ UNCHANGED nonPropVars

NextProps ==
    \/ \E i \in InstanceIds : NewInstance(i)
    \/ \E i \in InstanceIds : InitializeProperties(i)
    \/ \E i \in InstanceIds, v \in {StrV(<<"a">>), IntV(2)} : SetAttr(i, v)
    \/ \E i \in InstanceIds : SetNewList(i)
    \/ \E i \in InstanceIds : AppendItem(i)
    \/ \E i \in InstanceIds : Discard(i)

SpecProps == InitProps /\ [][NextProps]_vars

\* C12: every instance has its own copy of the class-level defaults: once an
\* instance is initialized, a change it makes to a property, by assignment or
\* by mutating a list default in place, changes neither what any other
\* instance sees nor the class-level default.
C12_InstancesKeepOwnDefaults ==
    lastCall.op \in {"setattr", "append"} =>
        /\ ClassView(classAttrs, heap) = lastCall.before.cls
        /\ \A j \in DOMAIN instances \ {lastCall.by} :
               View(instances[j], classAttrs, heap) = lastCall.before.views[j]

\* C13: _initialize_properties is idempotent: a second call on an instance,
\* at any later point and whatever mount or a handler did to its properties
\* in between, leaves the property state of the instance, and everything
\* else, exactly as it was before the call.
C13_InitializeIsIdempotent ==
    (/\ lastCall.op = "initialize"
     /\ lastCall.before.insts[lastCall.by].initialized)
    => Snapshot = lastCall.before

\* a second call on an instance whose title was assigned and whose list
\* default was mutated in place since the first
C13_Witness ==
    /\ lastCall.op = "initialize"
    /\ lastCall.before.insts[lastCall.by].initialized
    /\ "tags" \in DOMAIN classAttrs
    /\ instances[lastCall.by].dict["title"] # classAttrs["title"]
    /\ instances[lastCall.by].dict["tags"] = Ref(ClassListRef)
    /\ heap[ClassListRef] # <<>>

-----------------------------------------------------------------------------
(* SpecTemplate: get_template_name as a function of the configured       *)
(* extensions and of the templates that exist                             *)

\* longest _template_extensions list
MaxExts == 2

\* the extensions a component may configure
Extensions == {".vw.html", ".html", ".htm"}

nonTmplVars == <<valVars, ruleVars, reqVars, propVars, mwVars, serVars>>

InitTemplate ==
    /\ tExts \in SeqsUpTo(Extensions, MaxExts)
    /\ tExisting \in SUBSET Extensions
    /\ tOut = NoTemplate
    /\ ValIdle
    /\ RuleIdle
    /\ ReqIdle
    /\ PropIdle
    /\ MwIdle
    /\ SerIdle

\* self.get_template_name() on a component whose _template_extensions is tExts
GetTemplateName ==
    /\ tOut = NoTemplate
    /\ tOut' = ProbeTemplates(tExts, tExisting)
    /\ UNCHANGED <<tExts, tExisting>>
    /\ UNCHANGED nonTmplVars

NextTemplate == GetTemplateName

SpecTemplate == InitTemplate /\ [][NextTemplate]_vars

\* C14: when no candidate template exists, get_template_name returns the
\* default built from the namespace, the component name and the first
\* configured extension, whatever the configured list is.
C14_FallbackUsesFirstExtension ==
    (/\ tOut # NoTemplate
     /\ tExts # <<>>
     /\ \A i \in 1..Len(tExts) : tExts[i] \notin tExisting)
    => tOut = TemplateName(tExts[1])

-----------------------------------------------------------------------------
(* SpecMiddleware: VoltWireMiddleware around one request                  *)

\* a request as the middleware sees it: the two headers, the attributes set
\* on the request object, and the rest of it (its method)
MwRequests ==
    [spa : HeaderValues, component : HeaderValues, method : {"GET", "POST"},
     attrs : {EmptyMap}]

\* settings.VOLTWIRE: not defined, defined without AUTO_INCLUDE_SCRIPTS, or
\* with it set to True or False
MwSettings == {"no VOLTWIRE", "no key", "True", "False"}

\* getattr(settings, 'VOLTWIRE', {}).get('AUTO_INCLUDE_SCRIPTS', True)
AutoIncludeScripts(settings) == settings # "False"

\* the Content-Type header of a response, <<>> when it has none
ContentTypes ==
    { <<"text/html">>, <<"text/html", "; charset=utf-8">>, <<"application/json">>,
      <<"text/plain">>, <<>> }

ScriptTag == "<script src=\"/static/voltwire/js/voltwire.js\"></script>"

\* bodies: empty, a document with a head, a fragment without one, and a JSON
\* envelope whose html field holds a whole document
Bodies ==
    { <<>>,
      <<"<html><head>", "</head>", "<body></body></html>">>,
      <<"<div>", "</div>">>,
      <<"{\"success\": true, \"html\": \"<head>", "</head>", "\"}">> }

MwResponses ==
    [content_type : ContentTypes, streaming : BOOLEAN, content : Bodies, headers : {{}}]

\* hasattr(request, name) and request.<name>
IsSet(request, name) == name \in DOMAIN request.attrs /\ request.attrs[name]

\* _is_voltwire_spa_request
_is_voltwire_spa_request(request) ==
    request.spa = "true" \/ IsSet(request, "is_voltwire_spa")

\* a component test that looks at the X-VoltWire-SPA header instead
ComponentRequestBySpaHeader(request) == request.spa = "true"

\* _is_voltwire_component_request
_is_voltwire_component_request(request) == request.component = "true"

\* the second `if` of process_request
SetComponentFlag(request) ==
    IF _is_voltwire_component_request(request)
    THEN [request EXCEPT !.attrs = Put(@, "is_voltwire_component", TRUE)]
    ELSE request

\* the first `if` of process_request
SetSpaFlag(request) ==
    IF _is_voltwire_spa_request(request)
    THEN [request EXCEPT !.attrs = Put(@, "is_voltwire_spa", TRUE)]
    ELSE request

\* process_request(request): the request as it leaves
process_request(request) == SetComponentFlag(SetSpaFlag(request))

\* content.replace('</head>', f'{script_tag}\n</head>')
RECURSIVE ReplaceHead(_)
ReplaceHead(content) ==
    IF content = <<>> THEN <<>>
    ELSE IF Head(content) = "</head>"
         THEN <<ScriptTag, "\n", "</head>">> \o ReplaceHead(Tail(content))
         ELSE <<Head(content)>> \o ReplaceHead(Tail(content))

\* response['X-VoltWire-SPA'] = 'true' for a request flagged as SPA
WithSpaHeader(request, resp) ==
    IF IsSet(request, "is_voltwire_spa")
    THEN [resp EXCEPT !.headers = @ \cup {"X-VoltWire-SPA"}]
    ELSE resp

\* process_response that injects into a body of any content type
ProcessResponseAnyContentType(request, resp, settings) ==
    IF AutoIncludeScripts(settings) /\ ~resp.streaming
    THEN [WithSpaHeader(request, resp) EXCEPT !.content = ReplaceHead(@)]
    ELSE WithSpaHeader(request, resp)

\* process_response(request, response): the response as it leaves
process_response(request, resp, settings) ==
    IF /\ AutoIncludeScripts(settings)
       /\ StartsWith(resp.content_type, <<"text/html">>)
       /\ ~resp.streaming
    THEN [WithSpaHeader(request, resp) EXCEPT !.content = ReplaceHead(@)]
    ELSE WithSpaHeader(request, resp)

nonMwVars == <<valVars, ruleVars, reqVars, propVars, tmplVars, serVars>>

InitMiddleware ==
    /\ mwRequest \in MwRequests
    /\ mwSettings \in MwSettings
    /\ mwResponse = EmptyMap
    /\ mwPhase = "request"
    /\ ValIdle
    /\ RuleIdle
    /\ ReqIdle
    /\ PropIdle
    /\ TmplIdle
    /\ SerIdle

\* the middleware chain calls process_request; a second middleware entry or
\* a test may call it once more on the same request
ProcessRequest ==
    /\ mwPhase \in {"request", "view"}
    /\ mwPhase' = IF mwPhase = "request" THEN "view" ELSE "view again"
    /\ mwRequest' = process_request(mwRequest)
    /\ UNCHANGED <<mwSettings, mwResponse>>
    /\ UNCHANGED nonMwVars

\* get_response(request): the view answers
GetResponse(resp) ==
    /\ mwPhase \in {"view", "view again"}
    /\ mwPhase' = "response"
    /\ mwResponse' = resp
    /\ UNCHANGED <<mwRequest, mwSettings>>
    /\ UNCHANGED nonMwVars

ProcessResponse ==
    /\ mwPhase = "response"
    /\ mwPhase' = "sent"
    /\ mwResponse' = process_response(mwRequest, mwResponse, mwSettings)
    /\ UNCHANGED <<mwRequest, mwSettings>>
    /\ UNCHANGED nonMwVars

NextMiddleware ==
    \/ ProcessRequest
    \/ \E resp \in MwResponses : GetResponse(resp)
    \/ ProcessResponse

SpecMiddleware == InitMiddleware /\ [][NextMiddleware]_vars

\* C16: process_request sets two independent flags and changes nothing else:
\* after it is_voltwire_spa is set exactly when the request carries
\* X-VoltWire-SPA: true, is_voltwire_component exactly when it carries
\* X-VoltWire-Request: true, neither looks at the other header, and a flag
\* that was set before the call is still set after it.
C16_ProcessRequestSetsTwoFlags ==
    [][(mwPhase' \in {"view", "view again"}) =>
          /\ [mwRequest' EXCEPT !.attrs = mwRequest.attrs] = mwRequest
          /\ DOMAIN mwRequest'.attrs \subseteq {"is_voltwire_spa", "is_voltwire_component"}
          /\ IsSet(mwRequest', "is_voltwire_spa") <=> (mwRequest.spa = "true")
          /\ IsSet(mwRequest', "is_voltwire_component") <=> (mwRequest.component = "true")
          /\ \A name \in DOMAIN mwRequest.attrs :
                 IsSet(mwRequest, name) => IsSet(mwRequest', name)
          /\ UNCHANGED <<mwSettings, mwResponse>>]_vars

\* process_request has run twice on a request that carries the component
\* header and not the SPA header
C16_Witness ==
    /\ mwPhase = "view again"
    /\ mwRequest.spa = "1"
    /\ mwRequest.component = "true"
    /\ IsSet(mwRequest, "is_voltwire_component")
    /\ ~IsSet(mwRequest, "is_voltwire_spa")

\* C17: process_response leaves the body as it is for every response that is
\* not text/html, that is streaming, or that is produced while
\* AUTO_INCLUDE_SCRIPTS is false; the JSON envelope of a reactive request
\* is never altered by the script injection.
C17_OnlyHtmlBodiesAltered ==
    [][(mwPhase' = "sent" /\ (\/ ~StartsWith(mwResponse.content_type, <<"text/html">>)
                              \/ mwResponse.streaming
                              \/ mwSettings = "False"))
          => mwResponse'.content = mwResponse.content]_vars

\* a JSON envelope whose html holds </head> has passed process_response with
\* script injection on, for an SPA request, and only gained the header
C17_Witness ==
    /\ mwPhase = "sent"
    /\ mwSettings = "no VOLTWIRE"
    /\ mwResponse.content_type = <<"application/json">>
    /\ ~mwResponse.streaming
    /\ \E i \in 1..Len(mwResponse.content) : mwResponse.content[i] = "</head>"
    /\ mwResponse.headers = {"X-VoltWire-SPA"}

-----------------------------------------------------------------------------
(* SpecSerial: _get_serialized_properties as a function of the attributes *)
(* of the component                                                        *)

\* a list, a tuple, an object json cannot encode (a datetime, the request),
\* and a list that contains itself
ListV(items)  == [type |-> "list",   s |-> items, n |-> 0]
TupleV(items) == [type |-> "tuple",  s |-> items, n |-> 0]
ObjV          == [type |-> "object", s |-> <<>>,  n |-> 0]
CycleV        == [type |-> "cycle",  s |-> <<>>,  n |-> 0]

\* the values a property is given
SerValues ==
    { StrV(<<"T">>), StrV(<<"C">>), StrV(<<>>), IntV(2), FloatV(2), BoolV(TRUE), None,
      ListV(<<"x">>), TupleV(<<"x">>), ObjV, CycleV, Method }

\* attr_name.startswith('_')
IsPrivateName(name) == name \in {"_errors", "_title", "_validation_rules"}

\* callable(attr_value)
IsCallable(v) == v.type = "method"

\* json.dumps(value): the exception it raises, "" when it encodes
DumpsRaises(v) ==
    CASE v.type = "object" -> "TypeError"
      [] v.type = "cycle"  -> "ValueError"
      [] OTHER             -> ""

\* str(value) of a value json cannot encode
Str(v) ==
    CASE v.type = "object" -> StrV(<<"<object>">>)
      [] v.type = "cycle"  -> StrV(<<"[[...]]">>)
      [] OTHER             -> StrV(<<"<", v.type, ">">>)

\* the JSON text json.dumps writes for an encodable value: lists and tuples
\* are both arrays, True and False are true and false, None is null
JsonDumps(v) ==
    CASE v.type = "str"   -> [tok |-> "string", s |-> v.s, n |-> 0, frac |-> FALSE]
      [] v.type = "int"   -> [tok |-> "number", s |-> <<>>, n |-> v.n, frac |-> FALSE]
      [] v.type = "float" -> [tok |-> "number", s |-> <<>>, n |-> v.n, frac |-> TRUE]
      [] v.type = "bool"  -> [tok |-> IF v.n = 1 THEN "true" ELSE "false",
                              s |-> <<>>, n |-> 0, frac |-> FALSE]
      [] v.type = "null"  -> [tok |-> "null", s |-> <<>>, n |-> 0, frac |-> FALSE]
      [] v.type \in {"list", "tuple"} ->
                             [tok |-> "array", s |-> v.s, n |-> 0, frac |-> FALSE]

\* json.loads of one JSON text
JsonLoads(text) ==
    CASE text.tok = "string" -> StrV(text.s)
      [] text.tok = "number" -> IF text.frac THEN FloatV(text.n) ELSE IntV(text.n)
      [] text.tok = "true"   -> BoolV(TRUE)
      [] text.tok = "false"  -> BoolV(FALSE)
      [] text.tok = "null"   -> None
      [] text.tok = "array"  -> ListV(text.s)

\* the names the loop keeps: public and not callable
SerializedNames(attrs) ==
    {name \in DOMAIN attrs : ~IsPrivateName(name) /\ ~IsCallable(attrs[name])}

\* serialization that passes every value through, encodable or not
SerializeWithoutFallback(attrs) ==
    [raised |-> "", map |-> [name \in SerializedNames(attrs) |-> attrs[name]]]

\* _get_serialized_properties(): try json.dumps(value), keep the value; on
\* TypeError or ValueError keep str(value)
_get_serialized_properties(attrs) ==
    [raised |-> "",
     map |-> [name \in SerializedNames(attrs) |->
                 IF DumpsRaises(attrs[name]) \in {"TypeError", "ValueError"}
                 THEN Str(attrs[name])
                 ELSE attrs[name]]]

SerNotRun == [raised |-> "not run", map |-> EmptyMap]

\* what every component has besides its own properties: View's
\* http_method_names, the private _errors, the method mount
Inherited ==
    [http_method_names |-> ListV(<<"get", "post">>), _errors |-> ObjV, mount |-> Method]

\* f extended with g
Merge(f, g) == [x \in DOMAIN f \cup DOMAIN g |-> IF x \in DOMAIN g THEN g[x] ELSE f[x]]

nonSerVars == <<valVars, ruleVars, reqVars, propVars, tmplVars, mwVars>>

\* a component with title and content, before setup() or after it (when
\* self.request is set)
InitSerial ==
    /\ \E own \in [{"title", "content"} -> SerValues],
          afterSetup \in {EmptyMap, [request |-> ObjV]} :
              serAttrs = Merge(Merge(Inherited, own), afterSetup)
    /\ serOut = SerNotRun
    /\ ValIdle
    /\ RuleIdle
    /\ ReqIdle
    /\ PropIdle
    /\ TmplIdle
    /\ MwIdle

GetSerializedProperties ==
    /\ serOut = SerNotRun
    /\ serOut' = _get_serialized_properties(serAttrs)
    /\ UNCHANGED serAttrs
    /\ UNCHANGED nonSerVars

NextSerial == GetSerializedProperties

SpecSerial == InitSerial /\ [][NextSerial]_vars

\* the serialized map, encoded as JSON and decoded again
RoundTrip(map) == [name \in DOMAIN map |-> JsonLoads(JsonDumps(map[name]))]

====
